---- MODULE Spec2Model ----
(***************************************************************************)
(* A model of py21cmfast/plotting.py: the slice plots of coeval boxes and  *)
(* lightcones and the global-history plot, acting on matplotlib's pyplot   *)
(* session (the figures, the current axes, the images and colorbars).      *)
(*                                                                         *)
(* Every plotting function is one action that runs the whole function on   *)
(* arguments drawn from bounded sets and leaves in `last` what the call    *)
(* was given and what it did: how it ended (a return or the kind of error  *)
(* raised), what it returned and what it handed to the renderer.           *)
(***************************************************************************)
EXTENDS Integers, Sequences, FiniteSets, TLC

VARIABLES
    figs,     \* pyplot's figures, in creation order: the number of panels of each
    curax,    \* pyplot's current axes <<figure, panel>>, NoAx when there is none
    images,   \* the images drawn, in drawing order: [ax, cbar]
    texts,    \* the text annotations drawn, in drawing order: [ax, s]
    lines,    \* the curves drawn, in drawing order: [ax, series]
    last      \* the call that has just ended, [op |-> "idle"] between calls

vars == <<figs, curax, images, texts, lines, last>>

(***************************************************************************)
(* Bounds of the model.                                                    *)
(***************************************************************************)
MaxDim == 2         \* cube extents are 1..MaxDim
MaxFigs == 1        \* a call makes a figure only while fewer exist
MaxImages == 1      \* a call is made only while fewer images are drawn

(***************************************************************************)
(* Python values.                                                          *)
(***************************************************************************)
None == "None"
NoFig == 0
NoAx == <<0, 0>>
NoKw == [n \in {} |-> 0]
NoImg == [drawn |-> FALSE]

\* d[k] = v on a keyword dictionary
KwSet(kw, k, v) == [n \in (DOMAIN kw) \cup {k} |-> IF n = k THEN v ELSE kw[n]]

\* dict.get(k, default) and dict.pop(k, default)
KwGet(kw, k, default) == IF k \in DOMAIN kw THEN kw[k] ELSE default

KwDel(kw, k) == [n \in (DOMAIN kw) \ {k} |-> kw[n]]

\* {**a, **b} where the keys are disjoint
KwMerge(a, b) == [n \in (DOMAIN a) \cup (DOMAIN b) |-> IF n \in DOMAIN a THEN a[n] ELSE b[n]]

(***************************************************************************)
(* The pyplot session.                                                     *)
(***************************************************************************)
Ctx == [figs |-> figs, curax |-> curax, images |-> images, texts |-> texts, lines |-> lines]

AllAxes(ctx) == UNION {{<<f, i>> : i \in 1..ctx.figs[f]} : f \in 1..Len(ctx.figs)}

\* plt.subplots(n, 1) or (1, n): a new figure with n panels; the last one added is current
subplots(ctx, n) ==
    [ctx EXCEPT !.figs = Append(@, n), !.curax = <<Len(ctx.figs) + 1, n>>]

\* plt.sca(ax)
sca(ctx, ax) == [ctx EXCEPT !.curax = ax]

\* plt.imshow(...): an image on the current axes, without a colorbar yet
imshow(ctx) == [ctx EXCEPT !.images = Append(@, [ax |-> ctx.curax, cbar |-> FALSE])]

\* plt.colorbar(): a colorbar for the current image, the one drawn last on the current axes
colorbar(ctx) == [ctx EXCEPT !.images[Len(ctx.images)].cbar = TRUE]

\* ax.text(...)
text(ctx, ax, s) == [ctx EXCEPT !.texts = Append(@, [ax |-> ax, s |-> s])]

\* ax.plot(x, y)
plot(ctx, ax, series) == [ctx EXCEPT !.lines = Append(@, [ax |-> ax, series |-> series])]

\* ax._gci(): whether the axes has a current image
AxHasImage(ctx, ax) == \E k \in 1..Len(ctx.images) : ctx.images[k].ax = ax

\* fig._gci(): the index of the figure's current image, 0 when it has none
_gci(ctx, fig) ==
    LET mine == {k \in 1..Len(ctx.images) : ctx.images[k].ax[1] = fig}
    IN  IF mine = {} THEN 0 ELSE CHOOSE k \in mine : \A j \in mine : j <= k

(***************************************************************************)
(* numpy indexing.                                                         *)
(***************************************************************************)
\* tuple indexing shape[axis] accepts -3..2
ValidAxis(axis) == axis \in -3..2

NormAxis(axis) == IF axis < 0 THEN axis + 3 ELSE axis

\* cube.shape[slice_axis]
AxisLen(shape, axis) == shape[NormAxis(axis) + 1]

\* the axes of np.take(cube, i, axis), in order
TakeAxes(axis) ==
    LET a == NormAxis(axis)
    IN  IF a = 0 THEN <<1, 2>> ELSE IF a = 1 THEN <<0, 2>> ELSE <<0, 1>>

(***************************************************************************)
(* _imshow_slice                                                           *)
(***************************************************************************)
Raise(kind, ctx) == [outcome |-> kind, ctx |-> ctx, fig |-> NoFig, ax |-> NoAx, img |-> NoImg]

\* a = [cube, slice_axis, slice_index, fig, ax, cbar, cbar_horizontal, rotate, cmap, imshow_kw]

\* lines 74-83: the figure and axes to draw on, the axes made current
Prepared(ctx0, a) ==
    LET made == a.ax = NoAx /\ a.fig = NoFig
        ctx1 == IF made THEN subplots(ctx0, 1) ELSE ctx0
        ax   == IF made THEN ctx1.curax
                ELSE IF a.ax = NoAx THEN ctx0.curax      \* plt.gca()
                ELSE a.ax
        fig  == IF made THEN ctx1.curax[1]
                ELSE IF a.fig = NoFig THEN ctx0.curax[1] \* plt.gcf()
                ELSE a.fig
    IN  [ctx |-> sca(ctx1, ax), fig |-> fig, ax |-> ax]

\* np.take(cube, slice_index, axis=slice_axis) accepts the indices -n..n-1
TakeFails(a) ==
    \/ a.slice_index >= AxisLen(a.cube, a.slice_axis)
    \/ a.slice_index < 0 - AxisLen(a.cube, a.slice_axis)

\* lines 91-107: the slice is taken and drawn, with its colorbar
Rendered(p, a) ==
    LET axes == TakeAxes(a.slice_axis)
        \* imshow puts the rows of the array along y and the columns along x
        yax  == IF a.rotate THEN axes[1] ELSE axes[2]
        xax  == IF a.rotate THEN axes[2] ELSE axes[1]
        kw   == IF a.cmap = "EoR"
                THEN KwSet(KwSet(a.imshow_kw, "vmin", -150), "vmax", 30)
                ELSE a.imshow_kw
        ctx3 == imshow(p.ctx)
        ctx4 == IF a.cbar THEN colorbar(ctx3) ELSE ctx3
    IN  IF TakeFails(a) THEN Raise("IndexError", p.ctx)
        ELSE [outcome |-> "return", ctx |-> ctx4, fig |-> p.fig, ax |-> p.ax,
              img |-> [drawn |-> TRUE, cmap |-> a.cmap, kw |-> kw,
                       xaxis |-> xax, yaxis |-> yax,
                       xdim |-> a.cube[xax + 1], ydim |-> a.cube[yax + 1],
                       cbar |-> IF ~a.cbar THEN "none"
                                ELSE IF a.cbar_horizontal THEN "horizontal" ELSE "vertical"]]

\* the guard of line 85 placed after the drawing
_imshow_slice_late(ctx0, a) ==
    LET p == Prepared(ctx0, a)
        q == [a EXCEPT !.slice_index = 0]
    IN  IF ~ValidAxis(a.slice_axis) THEN Raise("IndexError", p.ctx)
        ELSE IF a.slice_index >= AxisLen(a.cube, a.slice_axis)
            THEN Raise("IndexError", Rendered(p, q).ctx)
        ELSE Rendered(p, a)

_imshow_slice(ctx0, a) ==
    LET p == Prepared(ctx0, a)
    IN  \* cube.shape[slice_axis] of line 85
        IF ~ValidAxis(a.slice_axis) THEN Raise("IndexError", p.ctx)
        ELSE IF a.slice_index >= AxisLen(a.cube, a.slice_axis) THEN Raise("IndexError", p.ctx)
        ELSE Rendered(p, a)

(***************************************************************************)
(* The arguments callers pass.                                             *)
(***************************************************************************)
\* 3D arrays as the simulation makes them: square across, any length along the last axis
Shapes == {<<n, n, m>> : n \in 1..MaxDim, m \in 1..MaxDim}

SliceAxes == -4..4

SliceIndices == -2..MaxDim

\* fig and ax: neither, an existing axes, an existing figure, or an axes and its figure
FigAx(ctx) ==
    {[fig |-> NoFig, ax |-> NoAx]}
        \cup {[fig |-> NoFig, ax |-> x] : x \in AllAxes(ctx)}
        \cup {[fig |-> f, ax |-> NoAx] : f \in 1..Len(ctx.figs)}
        \cup {[fig |-> x[1], ax |-> x] : x \in AllAxes(ctx)}

\* vmin and vmax as a caller may pass them to imshow
ValueRanges == {NoKw, [vmin |-> -1], [vmax |-> 1], [vmin |-> -1, vmax |-> 1]}

\* whether the session has room for a call that is passed fig and ax
Room(fig, ax) ==
    /\ Len(images) < MaxImages
    /\ (fig = NoFig /\ ax = NoAx) => Len(figs) < MaxFigs

Finish(op, args, r, more) ==
    /\ figs' = r.ctx.figs
    /\ curax' = r.ctx.curax
    /\ images' = r.ctx.images
    /\ texts' = r.ctx.texts
    /\ lines' = r.ctx.lines
    /\ last' = KwMerge([op |-> op, args |-> args, outcome |-> r.outcome,
                        fig |-> r.fig, ax |-> r.ax, img |-> r.img], more)

ImshowSlice ==
    /\ last.op = "idle"
    \* rotate and cbar_horizontal as this module's callers pass them: equal
    /\ \E cube \in Shapes, slice_axis \in SliceAxes, slice_index \in SliceIndices,
          fa \in FigAx(Ctx), cbar \in BOOLEAN, rotate \in BOOLEAN,
          cmap \in {"EoR", "viridis"}, kw \in ValueRanges :
            LET a == [cube |-> cube, slice_axis |-> slice_axis, slice_index |-> slice_index,
                      fig |-> fa.fig, ax |-> fa.ax, cbar |-> cbar,
                      cbar_horizontal |-> rotate, rotate |-> rotate,
                      cmap |-> cmap, imshow_kw |-> kw]
            IN  /\ Room(fa.fig, fa.ax)
                /\ Finish("_imshow_slice", a, _imshow_slice(Ctx, a), NoKw)

(***************************************************************************)
(* coeval_sliceplot                                                        *)
(***************************************************************************)
\* _imshow_slice(cube, **kw): the named parameters and their defaults, the rest to imshow
ImshowArgs(cube, kw) ==
    [cube |-> cube,
     slice_axis |-> KwGet(kw, "slice_axis", -1),
     slice_index |-> KwGet(kw, "slice_index", 0),
     fig |-> KwGet(kw, "fig", NoFig),
     ax |-> KwGet(kw, "ax", NoAx),
     cbar |-> KwGet(kw, "cbar", TRUE),
     cbar_horizontal |-> KwGet(kw, "cbar_horizontal", FALSE),
     rotate |-> KwGet(kw, "rotate", FALSE),
     cmap |-> KwGet(kw, "cmap", "EoR"),
     imshow_kw |-> [n \in (DOMAIN kw) \ {"slice_axis", "slice_index", "fig", "ax", "cbar",
                                          "cbar_horizontal", "rotate", "cmap"} |-> kw[n]]]

NoDeco == [xlabel |-> None, ylabel |-> None, cbar_label |-> None]

Raised(kind, ctx, deco) ==
    [outcome |-> kind, ctx |-> ctx, fig |-> NoFig, ax |-> NoAx, img |-> NoImg, deco |-> deco]

\* cbar = fig._gci().colorbar; cbar.ax: None has neither attribute
HasColorbar(ctx, fig) == _gci(ctx, fig) # 0 /\ ctx.images[_gci(ctx, fig)].cbar

coeval_sliceplot(ctx0, struct, kind0, cbar_label0, kwargs0) ==
    LET kind == IF kind0 = None /\ struct.type = "_OutputStruct" THEN struct.fieldnames[1]
                ELSE IF kind0 = None /\ struct.type = "Coeval" THEN "brightness_temp"
                ELSE kind0
        kwargs == IF kind # "brightness_temp" /\ "cmap" \notin DOMAIN kwargs0
                  THEN KwSet(kwargs0, "cmap", "viridis")
                  ELSE kwargs0
        r == _imshow_slice(ctx0, ImshowArgs(struct.shape,
                 KwSet(kwargs, "extent", <<"0", "BOX_LEN", "0", "BOX_LEN">>)))
        slice_axis == KwGet(kwargs, "slice_axis", -1)
        xax == IF slice_axis \in {2, -1} THEN "x" ELSE IF slice_axis = 1 THEN "x" ELSE "y"
        yax == IF slice_axis \in {2, -1} THEN "y" ELSE "z"
        labelled == [NoDeco EXCEPT !.xlabel = xax \o "-axis [Mpc]",
                                   !.ylabel = yax \o "-axis [Mpc]"]
        cbar_label == IF cbar_label0 # None THEN cbar_label0
                      ELSE IF kind = "brightness_temp" THEN "Brightness Temperature [mK]"
                      ELSE IF kind = "xH_box" THEN "Ionized fraction"
                      ELSE None
    IN  IF kind \notin struct.fields THEN Raised("AttributeError", ctx0, NoDeco)
        ELSE IF r.outcome # "return" THEN Raised(r.outcome, r.ctx, NoDeco)
        ELSE IF slice_axis \notin {2, -1, 1, 0} THEN Raised("ValueError", r.ctx, NoDeco)
        ELSE IF ~HasColorbar(r.ctx, r.fig) THEN Raised("AttributeError", r.ctx, labelled)
        ELSE [outcome |-> "return", ctx |-> r.ctx, fig |-> r.fig, ax |-> r.ax, img |-> r.img,
              deco |-> [labelled EXCEPT !.cbar_label = cbar_label]]

\* the outputs of the simulation that hold boxes of HII_DIM cells a side
Structs ==
    {[type |-> t[1], fieldnames |-> t[2], fields |-> t[3], shape |-> <<n, n, n>>] :
        t \in {<<"_OutputStruct", <<"xH_box", "Gamma12_box">>, {"xH_box", "Gamma12_box"}>>,
               <<"_OutputStruct", <<"brightness_temp">>, {"brightness_temp"}>>,
               <<"Coeval", <<>>, {"brightness_temp", "xH_box", "density"}>>},
        n \in 1..MaxDim}

\* one optional keyword
Opt(k, S) == {NoKw} \cup {KwSet(NoKw, k, v) : v \in S}

\* fig and ax as keywords
FigAxKw(ctx) ==
    {KwMerge(IF fa.fig = NoFig THEN NoKw ELSE [fig |-> fa.fig],
             IF fa.ax = NoAx THEN NoKw ELSE [ax |-> fa.ax]) : fa \in FigAx(ctx)}

CoevalSliceplot ==
    /\ last.op = "idle"
    /\ \E struct \in Structs, kind \in {None, "brightness_temp", "xH_box", "z_re_box"},
          cbar_label \in {None, ""},
          k1 \in Opt("slice_axis", SliceAxes), k2 \in Opt("slice_index", SliceIndices),
          k3 \in Opt("cbar", {FALSE}), k4 \in Opt("cmap", {"EoR", "viridis"}),
          k5 \in FigAxKw(Ctx), k6 \in ValueRanges :
            LET kwargs == KwMerge(KwMerge(KwMerge(k1, k2), KwMerge(k3, k4)), KwMerge(k5, k6))
                r == coeval_sliceplot(Ctx, struct, kind, cbar_label, kwargs)
            IN  /\ Room(KwGet(kwargs, "fig", NoFig), KwGet(kwargs, "ax", NoAx))
                /\ Finish("coeval_sliceplot",
                       [struct |-> struct, kind |-> kind, cbar_label |-> cbar_label,
                        kwargs |-> kwargs],
                       r, [deco |-> r.deco])

(***************************************************************************)
(* lightcone_sliceplot                                                     *)
(***************************************************************************)
\* redshifts are multiples of 1/ZScale, held as integers
ZScale == 2

\* int(np.ceil(z)) and int(z): int() truncates towards zero
Ceil(z) == 0 - ((0 - z) \div ZScale)

Trunc(z) == IF z >= 0 THEN z \div ZScale ELSE 0 - ((0 - z) \div ZScale)

\* np.arange(lo, hi)
Arange(lo, hi) == IF hi > lo THEN [i \in 1..(hi - lo) |-> lo + i - 1] ELSE <<>>

\* a[::step]
Stride(a, step) == [i \in 1..((Len(a) + step - 1) \div step) |-> a[(i - 1) * step + 1]]

\* the separation computed as len(zticks) // 10 + 1
ZTicks_sparse(zmin, zmax) ==
    LET zticks == Arange(Ceil(zmin), Trunc(zmax) + 1)
        n_sep == Len(zticks) \div 10 + 1
    IN  Stride(zticks, n_sep)

\* the redshift ticks of a lightcone whose redshifts run from zmin to zmax
ZTicks(zmin, zmax) ==
    LET zticks == Arange(Ceil(zmin), Trunc(zmax) + 1)
        n_sep == Len(zticks) \div 8 + 1
    IN  Stride(zticks, n_sep)

\* comoving_distance(zticks).value - lightcone_distances[0], one position per tick
DTicks(zticks) == [i \in 1..Len(zticks) |-> <<"comoving_distance", zticks[i]>>]

\* a.max() of a flattened array
ArrayMax(a) == CHOOSE v \in {a[i] : i \in 1..Len(a)} : \A i \in 1..Len(a) : a[i] <= v

Abs(v) == IF v < 0 THEN 0 - v ELSE v

\* a - b, cell by cell
ArrayDiff(a, b) == [i \in 1..Len(a) |-> a[i] - b[i]]

\* the value range of a difference plot
DiffRange(d) == [vmin |-> 0 - Abs(ArrayMax(d)), vmax |-> Abs(ArrayMax(d))]

NoLcDeco ==
    [xlabel |-> None, ylabel |-> None, cbar_label |-> None, tick_axis |-> None,
     zticks |-> <<>>, d_ticks |-> <<>>, cbar_label_axis |-> None]

\* lightcone2 = None is the lightcone NoLightcone
NoLightcone == [shape |-> <<0, 0, 0>>]

lightcone_sliceplot(ctx0, lightcone, kind, lightcone2, vertical, xlabel0, ylabel0, cbar_label0, kwargs0) ==
    LET slice_axis == KwGet(kwargs0, "slice_axis", 0)
        kwargs == KwDel(kwargs0, "slice_axis")
        redshift == "Redshift Axis [Mpc]"
        \* the labels of lines 230-265, before the swap
        xl == IF xlabel0 # None THEN xlabel0
              ELSE IF slice_axis = 0 THEN redshift ELSE "x-axis [Mpc]"
        yl == IF ylabel0 # None THEN ylabel0
              ELSE IF slice_axis = 1 THEN redshift ELSE "y-axis [Mpc]"
        xlabel == IF slice_axis = 0 /\ vertical THEN yl ELSE xl
        ylabel == IF slice_axis = 0 /\ vertical THEN xl ELSE yl
        extent == IF slice_axis # 0 THEN <<"0", "BOX_LEN", "0", "BOX_LEN">>
                  ELSE IF vertical THEN <<"0", "BOX_LEN", "0", "lightcone_coords[-1]">>
                  ELSE <<"0", "lightcone_coords[-1]", "0", "BOX_LEN">>
        differ == lightcone2 # NoLightcone
        fixed == [extent |-> extent, slice_axis |-> slice_axis, rotate |-> ~vertical,
                  cbar_horizontal |-> ~vertical]
        \* the keywords written out in the call, and the ones passed as **kwargs
        named == IF differ
                 THEN KwMerge(KwMerge(fixed, [cmap |-> KwGet(kwargs, "cmap", "bwr")]),
                              DiffRange(ArrayDiff(lightcone.arrays[kind],
                                                  lightcone2.arrays[kind])))
                 ELSE KwMerge(fixed,
                              [cmap |-> KwGet(kwargs, "cmap",
                                  IF kind = "brightness_temp" THEN "EoR" ELSE "viridis")])
        rest == IF differ THEN KwDel(kwargs, "cmap") ELSE kwargs
        r == _imshow_slice(ctx0, ImshowArgs(lightcone.shape, KwMerge(named, rest)))
        zticks == ZTicks(lightcone.z[1], lightcone.z[2])
        ticked == [NoLcDeco EXCEPT !.xlabel = IF xlabel # "" THEN xlabel ELSE None,
                                   !.ylabel = IF ylabel # "" THEN ylabel ELSE None,
                                   !.tick_axis = IF vertical THEN "y" ELSE "x",
                                   !.zticks = zticks,
                                   !.d_ticks = DTicks(zticks)]
        cbar_label == IF cbar_label0 # None THEN cbar_label0
                      ELSE IF kind = "brightness_temp" THEN "Brightness Temperature [mK]"
                      ELSE IF kind = "xH" THEN "Neutral fraction"
                      ELSE None
    IN  IF slice_axis \notin {0, 1, 2, -1} THEN Raised("ValueError", ctx0, NoLcDeco)
        ELSE IF kind \notin DOMAIN lightcone.arrays THEN Raised("AttributeError", ctx0, NoLcDeco)
        ELSE IF differ /\ kind \notin DOMAIN lightcone2.arrays
            THEN Raised("AttributeError", ctx0, NoLcDeco)
        \* a keyword given twice in one call
        ELSE IF (DOMAIN named) \cap (DOMAIN rest) # {} THEN Raised("TypeError", ctx0, NoLcDeco)
        ELSE IF r.outcome # "return" THEN Raised(r.outcome, r.ctx, NoLcDeco)
        ELSE IF ~HasColorbar(r.ctx, r.fig) THEN Raised("AttributeError", r.ctx, ticked)
        ELSE [outcome |-> "return", ctx |-> r.ctx, fig |-> r.fig, ax |-> r.ax, img |-> r.img,
              deco |-> [ticked EXCEPT !.cbar_label = cbar_label,
                                      !.cbar_label_axis = IF vertical THEN "y" ELSE "x"]]

\* a flattened array of n zeros
Zeros(n) == [i \in 1..n |-> 0]

Cells(shape) == shape[1] * shape[2] * shape[3]

\* redshift ranges, in units of 1/ZScale: 5.5 to 7.5, and 6 to 30
ZRanges == {<<11, 15>>, <<12, 60>>}

\* a lightcone with the named fields, all cells zero
Lightcone(shape, quantities, z) ==
    [shape |-> shape, quantities |-> quantities, z |-> z,
     arrays |-> [q \in {quantities[i] : i \in 1..Len(quantities)} |-> Zeros(Cells(shape))]]

LightconeSliceplot ==
    /\ last.op = "idle"
    /\ \E shape \in Shapes, z \in ZRanges, kind \in {"brightness_temp", "xH_box", "z_re_box"},
          vertical \in BOOLEAN, label \in {None, ""},
          k1 \in Opt("slice_axis", SliceAxes), k2 \in Opt("slice_index", {MaxDim}),
          k3 \in Opt("cbar", {FALSE}), k4 \in Opt("cmap", {"EoR"}), k5 \in FigAxKw(Ctx) :
            LET lightcone == Lightcone(shape, <<"brightness_temp", "xH_box">>, z)
                xlabel == label
                ylabel == label
                kwargs == KwMerge(KwMerge(KwMerge(k1, k2), KwMerge(k3, k4)), k5)
                r == lightcone_sliceplot(Ctx, lightcone, kind, NoLightcone, vertical,
                                         xlabel, ylabel, None, kwargs)
            IN  /\ Room(KwGet(kwargs, "fig", NoFig), KwGet(kwargs, "ax", NoAx))
                /\ Finish("lightcone_sliceplot",
                          [lightcone |-> lightcone, kind |-> kind, lightcone2 |-> NoLightcone,
                           vertical |-> vertical, xlabel |-> xlabel, ylabel |-> ylabel,
                           kwargs |-> kwargs],
                          r, [deco |-> r.deco])

\* difference plots are drawn for lightcones of at most MaxCells cells holding -MaxVal..MaxVal
MaxCells == 2
MaxVal == 1

LightconeDifference ==
    /\ last.op = "idle"
    /\ \E shape \in {sh \in Shapes : Cells(sh) <= MaxCells}, vertical \in BOOLEAN,
          k1 \in Opt("slice_axis", SliceAxes), k3 \in Opt("cbar", {FALSE}),
          k4 \in Opt("cmap", {"EoR"}), k5 \in FigAxKw(Ctx), k6 \in Opt("vmin", {-1}) :
          \E f1 \in [1..Cells(shape) -> (0 - MaxVal)..MaxVal],
             f2 \in [1..Cells(shape) -> (0 - MaxVal)..MaxVal] :
            LET lightcone == [shape |-> shape, quantities |-> <<"brightness_temp">>,
                              z |-> <<11, 15>>, arrays |-> [brightness_temp |-> f1]]
                lightcone2 == [lightcone EXCEPT !.arrays = [brightness_temp |-> f2]]
                kwargs == KwMerge(KwMerge(k1, k3), KwMerge(k4, KwMerge(k5, k6)))
                r == lightcone_sliceplot(Ctx, lightcone, "brightness_temp", lightcone2,
                                         vertical, None, None, None, kwargs)
            IN  /\ Room(KwGet(kwargs, "fig", NoFig), KwGet(kwargs, "ax", NoAx))
                /\ Finish("lightcone_sliceplot",
                          [lightcone |-> lightcone, kind |-> "brightness_temp",
                           lightcone2 |-> lightcone2, vertical |-> vertical,
                           xlabel |-> None, ylabel |-> None, kwargs |-> kwargs],
                          r, [deco |-> r.deco])

(***************************************************************************)
(* lightcone_sliceplot_all                                                 *)
(***************************************************************************)
\* cmaps.get(quantity, None); eor_colour is the colormap object, not the string "EoR"
Cmaps(quantity) ==
    IF quantity = "brightness_temp" THEN "eor_colour"
    ELSE IF quantity = "Ts_box" THEN "Reds"
    ELSE IF quantity \in {"xH_box", "dNrec_box", "z_re_box"} THEN "magma"
    ELSE IF quantity = "Gamma12_box" THEN "cubehelix"
    ELSE IF quantity = "density" THEN "viridis"
    ELSE None

RECURSIVE Panels(_, _, _, _, _, _)
\* the loop of lines 387-411 from panel i on, in figure fig
Panels(ctx, lightcone, vertical, kwargs, fig, i) ==
    LET n == Len(lightcone.quantities)
        quantity == lightcone.quantities[i]
        named == [fig |-> fig, ax |-> <<fig, i>>, cmap |-> Cmaps(quantity), cbar |-> FALSE]
        r == lightcone_sliceplot(ctx, lightcone, quantity, NoLightcone, vertical,
                 IF i = n /\ vertical THEN None ELSE "",
                 IF i = 1 /\ vertical THEN None ELSE "",
                 None, KwMerge(named, kwargs))
    IN  IF i > n THEN [outcome |-> "return", ctx |-> ctx, panels |-> n]
        \* plt.subplots(1, 1) gives one Axes, which has no [i]
        ELSE IF n = 1 THEN [outcome |-> "TypeError", ctx |-> ctx, panels |-> i - 1]
        ELSE IF (DOMAIN named) \cap (DOMAIN kwargs) # {}
            THEN [outcome |-> "TypeError", ctx |-> ctx, panels |-> i - 1]
        ELSE IF r.outcome # "return" THEN [outcome |-> r.outcome, ctx |-> r.ctx, panels |-> i - 1]
        ELSE Panels(text(r.ctx, <<fig, i>>, quantity), lightcone, vertical, kwargs, fig, i + 1)

lightcone_sliceplot_all(ctx0, lightcone, vertical, kwargs) ==
    LET ctx1 == subplots(ctx0, Len(lightcone.quantities))
        r == Panels(ctx1, lightcone, vertical, kwargs, Len(ctx1.figs), 1)
    IN  [outcome |-> r.outcome, ctx |-> r.ctx, fig |-> NoFig, ax |-> NoAx, img |-> NoImg,
         panels |-> r.panels]

LightconeSliceplotAll ==
    /\ last.op = "idle"
    /\ Room(NoFig, NoAx)
    /\ \E shape \in Shapes, z \in ZRanges, vertical \in BOOLEAN,
          quantities \in {<<"brightness_temp">>, <<"brightness_temp", "xH_box">>},
          k1 \in Opt("slice_axis", {0, 1, 3}), k2 \in Opt("slice_index", {0, MaxDim}),
          k3 \in Opt("cmap", {"viridis"}) :
            LET lightcone == Lightcone(shape, quantities, z)
                kwargs == KwMerge(KwMerge(k1, k2), k3)
                r == lightcone_sliceplot_all(Ctx, lightcone, vertical, kwargs)
            IN  Finish("lightcone_sliceplot_all",
                       [lightcone |-> lightcone, vertical |-> vertical, kwargs |-> kwargs],
                       r, [panels |-> r.panels])

(***************************************************************************)
(* plot_global_history                                                     *)
(***************************************************************************)
\* A name is the sequence of its parts, "global_xH" being <<"global_", "xH">>.
startswith(name, prefix) == Len(name) >= 1 /\ name[1] = prefix

\* hasattr(lightcone, name)
hasattr(lightcone, name) == name \in lightcone.attrs

\* lightcone = [global_quantities: the keys in order, attrs: the names of its attributes]
plot_global_history(ctx0, lightcone, kind0, ylabel0, ax0) ==
    LET ctx1 == IF ax0 = NoAx THEN subplots(ctx0, 1) ELSE ctx0
        ax == IF ax0 = NoAx THEN ctx1.curax ELSE ax0
        fig == ax[1]
        keys == {lightcone.global_quantities[i] : i \in 1..Len(lightcone.global_quantities)}
        kind == IF kind0 = None THEN lightcone.global_quantities[1] ELSE kind0
        passes == \/ kind \in keys
                  \/ hasattr(lightcone, <<"global_">> \o kind)
                  \/ startswith(kind, "global_") /\ hasattr(lightcone, kind)
        \* the attribute the second and third branches read
        name == IF startswith(kind, "global)") THEN kind ELSE <<"global_">> \o kind
        value == IF kind \in keys THEN <<"global_quantities", kind>> ELSE <<"attribute", name>>
        deco == [xlabel |-> <<"Redshift">>, ylabel |-> IF ylabel0 = None THEN kind ELSE ylabel0,
                 series |-> value]
        fail(e, ctx) == [outcome |-> e, ctx |-> ctx, fig |-> NoFig, ax |-> NoAx, img |-> NoImg,
                         deco |-> [xlabel |-> None, ylabel |-> None, series |-> None]]
    IN  \* fig = ax._gci().figure: an axes without an image has no current image
        IF ax0 # NoAx /\ ~AxHasImage(ctx0, ax0) THEN fail("AttributeError", ctx0)
        ELSE IF ~passes THEN fail("AssertionError", ctx1)
        ELSE IF kind \notin keys /\ ~hasattr(lightcone, name) THEN fail("AttributeError", ctx1)
        ELSE [outcome |-> "return", ctx |-> plot(ctx1, ax, value), fig |-> fig, ax |-> ax,
              img |-> NoImg, deco |-> deco]

\* the names of global quantities and of attributes the model draws from
GlobalNames == {<<"xH">>, <<"Tb">>, <<"global_", "xH">>}

AttrNames == {<<"global_", "xH">>, <<"global_", "Ts">>, <<"global_", "global_", "xH">>}

PlotGlobalHistory ==
    /\ last.op = "idle"
    /\ \E gq \in {<<k>> : k \in GlobalNames} \cup {<<<<"xH">>, <<"Tb">>>>},
          attrs \in SUBSET AttrNames,
          kind \in {None, <<"xH">>, <<"Tb">>, <<"Ts">>, <<"global_", "xH">>,
                    <<"global_", "Ts">>, <<"global)", "xH">>},
          ylabel \in {None, <<>>}, ax \in {NoAx} \cup AllAxes(Ctx) :
            LET lightcone == [global_quantities |-> gq, attrs |-> attrs]
                r == plot_global_history(Ctx, lightcone, kind, ylabel, ax)
            IN  /\ Len(lines) < MaxImages
                /\ ax = NoAx => Len(figs) < MaxFigs
                /\ Finish("plot_global_history",
                          [lightcone |-> lightcone, kind |-> kind, ylabel |-> ylabel, ax |-> ax],
                          r, [deco |-> r.deco])

(***************************************************************************)
(* The redshift ticks on their own, over every range up to MaxZ.           *)
(***************************************************************************)
MaxZ == 34

RedshiftTicks ==
    /\ last.op = "idle"
    /\ \E zmin \in 0..(MaxZ * ZScale), zmax \in 0..(MaxZ * ZScale) :
        /\ zmin <= zmax
        /\ last' = [op |-> "zticks", zmin |-> zmin, zmax |-> zmax,
                    zticks |-> ZTicks(zmin, zmax), d_ticks |-> DTicks(ZTicks(zmin, zmax))]
    /\ UNCHANGED <<figs, curax, images, texts, lines>>

\* the caller takes the result, or catches the error, and goes on
Continue ==
    /\ last.op # "idle"
    /\ last' = [op |-> "idle"]
    /\ UNCHANGED <<figs, curax, images, texts, lines>>

Init ==
    /\ figs = <<>>
    /\ curax = NoAx
    /\ images = <<>>
    /\ texts = <<>>
    /\ lines = <<>>
    /\ last = [op |-> "idle"]

Next ==
    \/ ImshowSlice
    \/ CoevalSliceplot
    \/ LightconeSliceplot
    \/ LightconeDifference
    \/ LightconeSliceplotAll
    \/ PlotGlobalHistory
    \/ RedshiftTicks
    \/ Continue

Spec == Init /\ [][Next]_vars

SpecImshow == Init /\ [][ImshowSlice \/ Continue]_vars

SpecCoeval == Init /\ [][CoevalSliceplot \/ Continue]_vars

SpecLightcone ==
    Init /\ [][LightconeSliceplot \/ LightconeDifference \/ LightconeSliceplotAll \/ Continue]_vars

SpecHistory == Init /\ [][ImshowSlice \/ PlotGlobalHistory \/ Continue]_vars

SpecTicks == Init /\ [][RedshiftTicks \/ Continue]_vars

(***************************************************************************)
(* The properties.                                                         *)
(***************************************************************************)
Given(kw, k) == k \in DOMAIN kw

Errors == {"IndexError", "ValueError", "AttributeError"}

SlicePlots == {"_imshow_slice", "coeval_sliceplot", "lightcone_sliceplot"}

\* C1: _imshow_slice with cmap "EoR" draws with the range (-150, 30) when the caller
\* passes no vmin or vmax, and with the caller's vmin and vmax when they are passed.
C1_EoRRange ==
    (last.op = "_imshow_slice" /\ last.outcome = "return" /\ last.args.cmap = "EoR") =>
        /\ last.img.kw.vmin = KwGet(last.args.imshow_kw, "vmin", -150)
        /\ last.img.kw.vmax = KwGet(last.args.imshow_kw, "vmax", 30)

\* C2: coeval_sliceplot and lightcone_sliceplot, asked for a field their object has along
\* a slice_axis outside {-1, 0, 1, 2}, end in a ValueError and in nothing else.
C2_BadAxisValueError ==
    (/\ last.op \in {"coeval_sliceplot", "lightcone_sliceplot"}
     /\ Given(last.args.kwargs, "slice_axis")
     /\ last.args.kwargs.slice_axis \notin {-1, 0, 1, 2}
     /\ last.op = "coeval_sliceplot" =>
            (last.args.kind = None \/ last.args.kind \in last.args.struct.fields)
     /\ last.op = "lightcone_sliceplot" => last.args.kind \in DOMAIN last.args.lightcone.arrays)
        => last.outcome = "ValueError"

\* C3: plot_global_history on axes of its own plots global_quantities[kind] when kind is
\* a key; otherwise the attribute "global_" + kind when the lightcone has it; otherwise
\* the attribute kind when kind starts with "global_" and the lightcone has it; and fails
\* with an AssertionError when none of the three resolves.
C3_Fallbacks ==
    (last.op = "plot_global_history" /\ last.args.ax = NoAx) =>
        LET lc == last.args.lightcone
            kind == IF last.args.kind = None THEN lc.global_quantities[1] ELSE last.args.kind
            isKey == \E i \in 1..Len(lc.global_quantities) : lc.global_quantities[i] = kind
            plotted(v) == last.outcome = "return" /\ last.deco.series = v
        IN  IF isKey THEN plotted(<<"global_quantities", kind>>)
            ELSE IF (<<"global_">> \o kind) \in lc.attrs
                THEN plotted(<<"attribute", <<"global_">> \o kind>>)
            ELSE IF kind[1] = "global_" /\ kind \in lc.attrs
                THEN plotted(<<"attribute", kind>>)
            ELSE last.outcome = "AssertionError"

\* the largest |a[i] - b[i]|
MaxAbsDiff(a, b) ==
    CHOOSE v \in {Abs(a[i] - b[i]) : i \in 1..Len(a)} : \A i \in 1..Len(a) : Abs(a[i] - b[i]) <= v

\* C4: a difference plot of two lightcones with the default colour map is drawn with
\* vmax the largest absolute difference of the two fields over all cells, and vmin = -vmax.
C4_SymmetricRange ==
    (/\ last.op = "lightcone_sliceplot"
     /\ last.args.lightcone2 # NoLightcone
     /\ ~Given(last.args.kwargs, "cmap")
     /\ last.outcome = "return") =>
        LET m == MaxAbsDiff(last.args.lightcone.arrays[last.args.kind],
                            last.args.lightcone2.arrays[last.args.kind])
        IN  last.img.kw.vmax = m /\ last.img.kw.vmin = 0 - m

\* C5: lightcone_sliceplot_all, given a lightcone of n >= 1 fields and no other keyword,
\* returns having drawn one panel per field, in order: an image without a colorbar and the
\* field's name on panel i.
C5_AllPanels ==
    (last.op = "lightcone_sliceplot_all" /\ DOMAIN last.args.kwargs = {}) =>
        LET q == last.args.lightcone.quantities
            f == Len(figs)
        IN  /\ last.outcome = "return"
            /\ last.panels = Len(q)
            /\ \A i \in 1..Len(q) :
                /\ \E k \in 1..Len(texts) : texts[k] = [ax |-> <<f, i>>, s |-> q[i]]
                /\ \E k \in 1..Len(images) : images[k] = [ax |-> <<f, i>>, cbar |-> FALSE]

\* C6: a slice plot that ends in an IndexError, a ValueError or an AttributeError leaves
\* the figures, the current axes and the images and colorbars as they were before the call.
C6_NoPartialFailure ==
    [][(last'.op \in SlicePlots /\ last'.outcome \in Errors) =>
            (figs' = figs /\ curax' = curax /\ images' = images)]_vars

\* C7: _imshow_slice, given a valid axis of the cube and a slice_index that is at least
\* the cube's extent along it, raises an IndexError and draws no image and no colorbar.
C7_IndexErrorBeforeRender ==
    [][(/\ last'.op = "_imshow_slice"
        /\ ValidAxis(last'.args.slice_axis)
        /\ last'.args.slice_index >= last'.args.cube[NormAxis(last'.args.slice_axis) + 1])
            => (last'.outcome = "IndexError" /\ images' = images)]_vars

\* C7 witness: such a call has ended, on axes the caller passed, the index just too large.
C7_Witness ==
    /\ last.op = "_imshow_slice"
    /\ last.args.slice_axis = -2
    /\ last.args.slice_index = last.args.cube[2]
    /\ last.args.ax # NoAx
    /\ last.outcome = "IndexError"
    /\ images = <<>>

\* C8: coeval_sliceplot and lightcone_sliceplot called with cbar=False on a valid input
\* return, having drawn an image without a colorbar.
C8_NoColorbarOk ==
    (/\ last.op \in {"coeval_sliceplot", "lightcone_sliceplot"}
     /\ DOMAIN last.args.kwargs = {"cbar"}
     /\ last.args.kwargs.cbar = FALSE
     /\ last.op = "coeval_sliceplot" =>
            (last.args.kind = None \/ last.args.kind \in last.args.struct.fields)
     /\ last.op = "lightcone_sliceplot" => last.args.kind \in DOMAIN last.args.lightcone.arrays)
        => (last.outcome = "return" /\ last.img.cbar = "none")

\* C9: lightcone_sliceplot with default labels and slice_axis 0 or 1: the plot axis that
\* gets the redshift ticks carries the label "Redshift Axis [Mpc]" and is the image axis
\* along which the last dimension of the lightcone runs.
C9_RedshiftAxisLabel ==
    (/\ last.op = "lightcone_sliceplot"
     /\ last.outcome = "return"
     /\ last.args.xlabel = None /\ last.args.ylabel = None
     /\ KwGet(last.args.kwargs, "slice_axis", 0) \in {0, 1}) =>
        IF last.deco.tick_axis = "x"
        THEN last.deco.xlabel = "Redshift Axis [Mpc]" /\ last.img.xaxis = 2
        ELSE last.deco.ylabel = "Redshift Axis [Mpc]" /\ last.img.yaxis = 2

\* C10: the redshift ticks are at most 8 integers, strictly increasing, all within
\* [zmin, zmax], the first being the smallest integer >= zmin whenever the range holds
\* an integer; and there is one tick position per tick label.
C10_Ticks ==
    last.op = "zticks" =>
        LET t == last.zticks
        IN  /\ Len(t) <= 8
            /\ \A i \in 1..Len(t) : last.zmin <= t[i] * ZScale /\ t[i] * ZScale <= last.zmax
            /\ \A i \in 1..(Len(t) - 1) : t[i] < t[i + 1]
            /\ (\E k \in 0..(MaxZ + 1) : last.zmin <= k * ZScale /\ k * ZScale <= last.zmax)
                   => (Len(t) >= 1 /\ (t[1] - 1) * ZScale < last.zmin)
            /\ Len(last.d_ticks) = Len(t)

\* C10 witness: eight ticks, picked from a longer run of integers.
C10_Witness ==
    /\ last.op = "zticks"
    /\ Len(last.zticks) = 8
    /\ last.zticks[2] - last.zticks[1] > 1
    /\ last.zticks[1] * ZScale > last.zmin
====
